---------------------------- MODULE Spec2Model ----------------------------
(***************************************************************************)
(* The durable action-processing subsystem of bn-api: the domain action    *)
(* monitor (api/src/domain_events/domain_action_monitor.rs), the action    *)
(* record store it polls and leases from, the router and the executors.    *)
(*                                                                         *)
(* Time is the store's clock, counted in ticks of TickSecs seconds.  The   *)
(* model keeps every time relative to the present: busy_until, a Timeout's *)
(* deadline and a lease's expiry are the ticks left until that instant (0  *)
(* once it has passed), and now is the store time up to the latest         *)
(* scheduled_at any action has (later times are not told apart).  Time     *)
(* itself is therefore unbounded.                                          *)
(* Dispatcher "w1" runs the continuous loop run_actions, dispatcher "w2"   *)
(* runs the synchronous run_til_empty; both work against the same store    *)
(* and the same connection pool.                                           *)
(*                                                                         *)
(* Three specifications share the actions below:                           *)
(*   Spec          both dispatchers, LeaseActions actions, all due         *)
(*   SpecBatch     run_actions alone, NumActions actions of both types,    *)
(*                 every pool capacity in 1..MaxPool                       *)
(*   SpecTilEmpty  run_til_empty alone                                     *)
(*   SpecRetry     run_actions alone under fair scheduling, for what must  *)
(*                 eventually happen                                       *)
(*   SpecRace      both dispatchers over RaceActions actions, within one   *)
(*                 lease period                                            *)
(***************************************************************************)
EXTENDS Integers, Sequences, FiniteSets, TLC

\* ---------------------------------------------------------------- bounds
TickSecs == 15
LeaseActions == 1
TilEmptyActions == 2
NumActions == 3
RaceActions == 2
RetryActions == 2
MaxPool == 4
SchedLater == 1
MaxExec == 2
StopActions == 2
MaxEvents == 1
StoreActions == 2
MaxRegs == 4
CancelActions == 2
PubEvents == 11
BizEvents == 2
MaxBizActions == 3
MaxHeld == 2
MaxBroadcasts == 1
BizTransfers == 1

\* ------------------------------------------------------ program constants
LeaseSecs == 60
ExecTimeoutSecs == 55
PublishBatch == 10

\* In ticks: the lease rounded up and the timeout rounded down, so that the
\* timeout stays the shorter of the two whatever the tick.
Lease == (LeaseSecs + TickSecs - 1) \div TickSecs
ExecTimeout == ExecTimeoutSecs \div TickSecs

ActionTypes == {"SendEmail", "Foo"}
Terminal == {"Success", "Errored", "Cancelled"}

VARIABLES
    now,          \* store time, in ticks, up to SchedLater
    poolMax,      \* config.connection_pool.max
    inUse,        \* connections checked out of the r2d2 pool
    status,       \* DomainAction.status, per action id
    scheduled_at, \* DomainAction.scheduled_at
    busy_until,   \* lease expiry: the ticks left until it
    atype,        \* DomainAction.domain_action_type
    last_error,   \* DomainAction.last_error ("" when none)
    pc,           \* each dispatcher's position in its loop
    pending,      \* find_actions: pending_actions (the poll's result)
    idx,          \* find_actions: index of the for loop
    result,       \* find_actions: result, as records of id and lease expiry
    running,      \* executor calls in flight
    leases,       \* history: the leases granted and not yet expired
    execCount,    \* history: executor invocations per action, up to MaxExec
    pass,         \* history: what each dispatcher's current pass has done
    worker_threads, \* DomainActionMonitor.worker_threads, as the loops' names
    signal,       \* per loop: the stop signals sent and not yet received
    stopPc,       \* the position of the caller of stop()
    draining,     \* stop(): what worker_threads.drain(..) has yet to yield
    pubPc,        \* the publication loop's position
    pubLeft,      \* find_and_publish_events: the pairs of the batch not yet published
    unpub,        \* publisher/event pairs without a recorded publication
    pubPass,      \* history: the batch of the publication pass and its publish calls
    router,       \* DomainActionRouter: the executor registered for each type
    regLog,       \* history: the register calls made, in order
    storeCall,    \* history: the last terminal transition called on the store
    cancelling,   \* clear_pending_drip_actions: the actions found, not yet cancelled
    resource,     \* DomainAction.main_table, main_table_id and payload, per action id
    db_events,    \* the events table: status, venue_id and promo_image_url per event
    held,         \* Event values loaded by Event::find and held by callers
    broadcasts,   \* the broadcasts table, in order of insertion
    bizCall       \* history: the last call of business logic and what it returned

vars == <<now, poolMax, inUse, status, scheduled_at, busy_until, atype,
          last_error, pc, pending, idx, result, running, leases, execCount,
          pass, worker_threads, signal, stopPc, draining, pubPc, pubLeft,
          unpub, pubPass, router, regLog, storeCall, cancelling, resource,
          db_events, held, broadcasts, bizCall>>

storeVars == <<status, busy_until, last_error, leases>>
\* The monitor's lifecycle and the publication loop.
pubVars == <<pubLeft, unpub, pubPass>>
monitorVars == <<worker_threads, signal, stopPc, draining, pubPc, pubVars>>
\* What no dispatch pass and no executor writes.
\* The router and what business logic does on the store.
apiVars == <<router, regLog, storeCall, cancelling>>
\* The business entities that own actions.
bizVars == <<resource, db_events, held, broadcasts, bizCall>>
confVars == <<poolMax, scheduled_at, atype, apiVars, bizVars>>
cfgVars == <<confVars, monitorVars>>
localVars == <<pending, idx, result>>
\* The domain_actions table, and what no call of business logic touches.
actionRows == <<status, scheduled_at, busy_until, atype, last_error, execCount,
                resource>>
bizFrame == <<now, poolMax, inUse, leases, pc, localVars, running, pass,
              monitorVars, apiVars>>

Ids == DOMAIN status
Workers == DOMAIN pc

\* ------------------------------------------------------------ pure parts
Max(a, b) == IF a >= b THEN a ELSE b
Min(a, b) == IF a <= b THEN a ELSE b

\* cmp::max(1, connection_pool.max / 2): the limit handed to find_actions.
Limit(max) == Max(1, max \div 2)

\* find_actions: "if limit < index { break; }".
CapReached(limit, index) == limit < index

\* r2d2: a connection can be checked out while the pool is not at max_size.
PoolHasFree == inUse < poolMax

\* The router built by set_up_executors: the types with an executor.
Registered == DOMAIN router
GetExecutorFor(t) == IF t \in DOMAIN router THEN router[t] ELSE "none"

\* create_router: a new router on which set_up_executors has registered the
\* executors of the types it knows.
CreateRouter == [t \in {"SendEmail"} |-> "SendEmailExecutor"]

\* No terminal transition has been called.
NoCall == [op |-> "none", id |-> 0, was |-> "", error_was |-> "", ret |-> ""]

\* The router as create_router builds it; business logic has done nothing yet.
ApiNew ==
    /\ router = CreateRouter
    /\ regLog = <<[t |-> "SendEmail", e |-> "SendEmailExecutor"]>>
    /\ storeCall = NoCall
    /\ cancelling = <<>>

\* A poll that knows nothing of leases: it returns Pending actions only.
DuePendingOnly(a) ==
    /\ scheduled_at[a] <= now
    /\ status[a] = "Pending"

\* A poll that does not look at scheduled_at.
DueWhenever(a) ==
    \/ status[a] = "Pending"
    \/ status[a] = "Busy" /\ busy_until[a] <= 0

\* An action the poll may return: due by store time, and unleased (Pending, or
\* Busy with an expired lease).
Due(a) ==
    /\ scheduled_at[a] <= now
    /\ \/ status[a] = "Pending"
       \/ status[a] = "Busy" /\ busy_until[a] <= 0

Before(a, b) ==
    \/ scheduled_at[a] < scheduled_at[b]
    \/ scheduled_at[a] = scheduled_at[b] /\ a < b

RECURSIVE SortBySchedule(_)
SortBySchedule(S) ==
    IF S = {} THEN <<>>
    ELSE LET first == CHOOSE a \in S : \A b \in S \ {a} : Before(a, b)
         IN <<first>> \o SortBySchedule(S \ {first})

\* DomainAction::find_pending(None, conn): ordered by scheduled_at ascending.
FindPending == SortBySchedule({a \in Ids : Due(a)})

\* A set_busy that does not look at the lease's expiry.
LeasableWhileLeased(a) == status[a] \in {"Pending", "Busy"}

\* A set_busy with a bound on the attempts: no lease once the executor has
\* been called MaxExec times.
LeasableWithinBound(a) ==
    /\ \/ status[a] = "Pending"
       \/ status[a] = "Busy" /\ busy_until[a] <= 0
    /\ execCount[a] < MaxExec

\* The row-level condition of set_busy: Pending, or a lease that has expired.
Leasable(a) ==
    \/ status[a] = "Pending"
    \/ status[a] = "Busy" /\ busy_until[a] <= 0

Range(s) == {s[i] : i \in 1..Len(s)}

\* ------------------------------------------------------------------ Init
NoPass ==
    [polled |-> {}, relet |-> {}, leased |-> {}, skipped |-> {},
     err |-> "", poolFail |-> FALSE, returned |-> -1]

\* The loops start() spawns: run_actions (dispatcher "w1") and
\* publish_events_to_actions.
Loops == <<"w1", "pub">>

\* No call of business logic yet.
NoBizCall == [op |-> "none", self |-> [id |-> 0], ret |-> "", created |-> {}]

\* No business entity in the store, and none loaded.
NoBusiness ==
    /\ resource = <<>>
    /\ db_events = <<>>
    /\ held = {}
    /\ broadcasts = <<>>
    /\ bizCall = NoBizCall

NoPubPass == [batch |-> {}, called |-> <<>>]

\* DomainActionMonitor::new: no worker thread yet; n pairs await publication.
MonitorNew(n) ==
    /\ worker_threads = <<>>
    /\ signal = [l \in Range(Loops) |-> 0]
    /\ stopPc = "idle"
    /\ draining = <<>>
    /\ pubPc = "unspawned"
    /\ pubLeft = <<>>
    /\ unpub = 1..n
    /\ pubPass = NoPubPass

InitWith(ids, workers, pools, types, scheds, statuses) ==
    /\ now = 0
    /\ poolMax \in pools
    /\ inUse = 0
    /\ status \in [ids -> statuses]
    /\ scheduled_at \in [ids -> scheds]
    /\ busy_until = [a \in ids |-> 0]
    /\ atype \in [ids -> types]
    /\ last_error = [a \in ids |-> ""]
    /\ pc = [w \in workers |-> "top"]
    /\ pending = [w \in workers |-> <<>>]
    /\ idx = [w \in workers |-> 0]
    /\ result = [w \in workers |-> <<>>]
    /\ running = {}
    /\ leases = {}
    /\ execCount = [a \in ids |-> 0]
    /\ pass = [w \in workers |-> NoPass]
    /\ MonitorNew(0)
    /\ ApiNew
    /\ NoBusiness

\* ------------------------------------------------------- the store's time
\* The store's clock advances one tick.  A Timeout fires at its deadline, so
\* time does not pass a deadline while that executor call is still in flight.
Tick ==
    /\ \A e \in running : e.deadline > 0
    /\ now' = Min(now + 1, SchedLater)
    /\ busy_until' = [a \in Ids |-> Max(0, busy_until[a] - 1)]
    /\ running' = {[e EXCEPT !.deadline = @ - 1, !.lease = Max(0, @ - 1)] :
                     e \in running}
    /\ result' = [w \in Workers |->
                    [i \in 1..Len(result[w]) |->
                       [result[w][i] EXCEPT !.lease = Max(0, @ - 1)]]]
    /\ leases' = {[l EXCEPT !.until = @ - 1] : l \in {k \in leases : k.until > 1}}
    /\ UNCHANGED <<cfgVars, inUse, status, last_error, pc, pending, idx,
                   execCount, pass>>

\* ---------------------------------------------------------- find_actions
\* The action the for loop is at (index is 0-based).
Current(w) == pending[w][idx[w] + 1]

\* find_actions returns Ok(result): pending_actions and the polling connection
\* are dropped.
ReturnOk(w) ==
    /\ pc' = [pc EXCEPT ![w] = "dispatch"]
    /\ pending' = [pending EXCEPT ![w] = <<>>]
    /\ idx' = [idx EXCEPT ![w] = 0]
    /\ inUse' = inUse - 1
    /\ UNCHANGED result

\* A loop that never looks at its stop channel.
StopNeverObserved(l) == FALSE

\* Both loops listening on one channel: a loop sees a signal sent to either.
StopObservedOfAny(l) == l \in DOMAIN signal /\ \E k \in DOMAIN signal : signal[k] > 0

\* rx.try_recv().is_ok() at the top of a loop: a stop signal is waiting.
\* run_til_empty has no stop channel.
StopObserved(l) == l \in DOMAIN signal /\ signal[l] > 0

\* Top of the dispatcher's loop and the head of find_actions: take the polling
\* connection and poll the store.
FA_Poll(w) ==
    /\ pc[w] = "top"
    /\ ~StopObserved(w)
    /\ UNCHANGED <<now, cfgVars, storeVars, running, execCount>>
    /\ IF ~PoolHasFree
       THEN \* database.get_connection()? fails: find_actions returns Err
            /\ pc' = [pc EXCEPT ![w] = "failed"]
            /\ pass' = [pass EXCEPT ![w] = [NoPass EXCEPT !.err = "Pool"]]
            /\ UNCHANGED <<inUse, pending, idx, result>>
       ELSE LET found == FindPending
            IN /\ result' = [result EXCEPT ![w] = <<>>]
               /\ idx' = [idx EXCEPT ![w] = 0]
               /\ IF Len(found) = 0
                  THEN \* return Ok(vec![]): the connection is dropped again
                       /\ pc' = [pc EXCEPT ![w] = "dispatch"]
                       /\ pass' = [pass EXCEPT ![w] =
                                     [NoPass EXCEPT !.returned = 0]]
                       /\ UNCHANGED <<inUse, pending>>
                  ELSE /\ pc' = [pc EXCEPT ![w] = "fa_loop"]
                       /\ pending' = [pending EXCEPT ![w] = found]
                       /\ pass' = [pass EXCEPT ![w] =
                                     [NoPass EXCEPT
                                        !.polled = Range(found),
                                        !.relet = {a \in Range(found) :
                                                     status[a] = "Busy"}]]
                       /\ inUse' = inUse + 1

\* A per-action get_connection() followed by "?" instead of the match with
\* break: the pool's refusal makes find_actions return Err.
FA_NextAborts(w) ==
    /\ pc[w] = "fa_loop"
    /\ UNCHANGED <<now, cfgVars, storeVars, running, execCount>>
    /\ IF idx[w] >= Len(pending[w]) \/ CapReached(Limit(poolMax), idx[w])
       THEN /\ ReturnOk(w)
            /\ pass' = [pass EXCEPT ![w].returned = Len(result[w])]
       ELSE IF PoolHasFree
       THEN /\ inUse' = inUse + 1
            /\ pc' = [pc EXCEPT ![w] = "fa_busy"]
            /\ UNCHANGED <<idx, result, pending, pass>>
       ELSE /\ pc' = [pc EXCEPT ![w] = "failed"]
            /\ pass' = [pass EXCEPT ![w].err = "Pool"]
            /\ inUse' = inUse - 1 - Len(result[w])
            /\ pending' = [pending EXCEPT ![w] = <<>>]
            /\ result' = [result EXCEPT ![w] = <<>>]
            /\ idx' = [idx EXCEPT ![w] = 0]

\* Head of the for loop: end of the list, the cap, or the per-action connection.
FA_Next(w) ==
    /\ pc[w] = "fa_loop"
    /\ UNCHANGED <<now, cfgVars, storeVars, running, execCount>>
    /\ IF idx[w] >= Len(pending[w]) \/ CapReached(Limit(poolMax), idx[w])
       THEN /\ ReturnOk(w)
            /\ pass' = [pass EXCEPT ![w].returned = Len(result[w])]
       ELSE IF PoolHasFree
       THEN /\ inUse' = inUse + 1
            /\ pc' = [pc EXCEPT ![w] = "fa_busy"]
            /\ UNCHANGED <<idx, result, pending, pass>>
       ELSE \* "Hit connection pool maximum": break
            /\ ReturnOk(w)
            /\ pass' = [pass EXCEPT ![w].poolFail = TRUE,
                                    ![w].returned = Len(result[w])]

\* A match on set_busy's result that treats ConcurrencyError like any other
\* error: find_actions returns Err and every connection of the pass is dropped.
FA_SetBusyAborts(w) ==
    /\ pc[w] = "fa_busy"
    /\ UNCHANGED <<now, cfgVars, last_error, running, execCount>>
    /\ LET a == Current(w)
       IN IF Leasable(a)
          THEN /\ status' = [status EXCEPT ![a] = "Busy"]
               /\ busy_until' = [busy_until EXCEPT ![a] = Lease]
               /\ leases' = leases \cup
                              {[w |-> w, id |-> a, until |-> Lease]}
               /\ pass' = [pass EXCEPT ![w].leased = @ \cup {a}]
               /\ pc' = [pc EXCEPT ![w] = "fa_route"]
               /\ UNCHANGED <<inUse, idx, pending, result>>
          ELSE /\ pass' = [pass EXCEPT ![w].err = "Store"]
               /\ inUse' = inUse - (2 + Len(result[w]))
               /\ result' = [result EXCEPT ![w] = <<>>]
               /\ pending' = [pending EXCEPT ![w] = <<>>]
               /\ idx' = [idx EXCEPT ![w] = 0]
               /\ pc' = [pc EXCEPT ![w] = "failed"]
               /\ UNCHANGED <<status, busy_until, leases>>

\* A match on set_busy's result that takes ConcurrencyError for a lease: the
\* action goes on to the router and onto result although it was not leased.
FA_SetBusyIgnoresConflict(w) ==
    /\ pc[w] = "fa_busy"
    /\ UNCHANGED <<now, cfgVars, last_error, running, execCount, pending, result>>
    /\ LET a == Current(w)
       IN IF Leasable(a)
          THEN /\ status' = [status EXCEPT ![a] = "Busy"]
               /\ busy_until' = [busy_until EXCEPT ![a] = Lease]
               /\ leases' = leases \cup
                              {[w |-> w, id |-> a, until |-> Lease]}
               /\ pass' = [pass EXCEPT ![w].leased = @ \cup {a}]
               /\ pc' = [pc EXCEPT ![w] = "fa_route"]
               /\ UNCHANGED <<inUse, idx>>
          ELSE /\ pass' = [pass EXCEPT ![w].skipped = @ \cup {a}]
               /\ pc' = [pc EXCEPT ![w] = "fa_route"]
               /\ UNCHANGED <<inUse, idx, status, busy_until, leases>>

\* action.set_busy(60, connection): the store's conditional update, and the
\* match on its result.
FA_SetBusy(w) ==
    /\ pc[w] = "fa_busy"
    /\ UNCHANGED <<now, cfgVars, last_error, running, execCount, pending, result>>
    /\ LET a == Current(w)
       IN IF Leasable(a)
          THEN /\ status' = [status EXCEPT ![a] = "Busy"]
               /\ busy_until' = [busy_until EXCEPT ![a] = Lease]
               /\ leases' = leases \cup
                              {[w |-> w, id |-> a, until |-> Lease]}
               /\ pass' = [pass EXCEPT ![w].leased = @ \cup {a}]
               /\ pc' = [pc EXCEPT ![w] = "fa_route"]
               /\ UNCHANGED <<inUse, idx>>
          ELSE \* ConcurrencyError: continue; per_action_connection is dropped
               /\ pass' = [pass EXCEPT ![w].skipped = @ \cup {a}]
               /\ inUse' = inUse - 1
               /\ idx' = [idx EXCEPT ![w] = @ + 1]
               /\ pc' = [pc EXCEPT ![w] = "fa_loop"]
               /\ UNCHANGED <<status, busy_until, leases>>

\* A set_errored that writes whatever the action's status is.
MarkErroredAlways(a, msg) ==
    /\ status' = [status EXCEPT ![a] = "Errored"]
    /\ last_error' = [last_error EXCEPT ![a] = msg]

\* set_errored / set_done as the store applies them: a terminal action is left
\* as it is.
MarkErrored(a, msg) ==
    IF status[a] \in Terminal
    THEN UNCHANGED <<status, last_error>>
    ELSE /\ status' = [status EXCEPT ![a] = "Errored"]
         /\ last_error' = [last_error EXCEPT ![a] = msg]

MarkSuccess(a) ==
    IF status[a] \in Terminal
    THEN UNCHANGED <<status, last_error>>
    ELSE /\ status' = [status EXCEPT ![a] = "Success"]
         /\ UNCHANGED last_error

\* set_cancelled, likewise.
MarkCancelled(a) ==
    IF status[a] \in Terminal
    THEN UNCHANGED <<status, last_error>>
    ELSE /\ status' = [status EXCEPT ![a] = "Cancelled"]
         /\ UNCHANGED last_error

\* The lease this dispatcher has just taken on the action it is at.
OwnLease(w) == busy_until[Current(w)]

\* router.get_executor_for, then set_errored and Err, or the push onto result.
FA_Route(w) ==
    /\ pc[w] = "fa_route"
    /\ UNCHANGED <<now, cfgVars, busy_until, leases, running, execCount>>
    /\ LET a == Current(w)
       IN IF GetExecutorFor(atype[a]) = "none"
          THEN /\ MarkErrored(a, "Not executor has been created for this action type")
               \* return Err: every connection of the pass is dropped
               /\ inUse' = inUse - (2 + Len(result[w]))
               /\ result' = [result EXCEPT ![w] = <<>>]
               /\ pending' = [pending EXCEPT ![w] = <<>>]
               /\ idx' = [idx EXCEPT ![w] = 0]
               /\ pass' = [pass EXCEPT ![w].err = "NoExecutor"]
               /\ pc' = [pc EXCEPT ![w] = "failed"]
          ELSE /\ result' = [result EXCEPT ![w] =
                               Append(@, [id |-> a, lease |-> OwnLease(w)])]
               /\ idx' = [idx EXCEPT ![w] = @ + 1]
               /\ pc' = [pc EXCEPT ![w] = "fa_loop"]
               /\ UNCHANGED <<status, last_error, inUse, pass, pending>>

\* ------------------------------------------------------------ run_actions
\* Timeout::new(command.execute(action, connection), 55 s)
Execution(w, r) ==
    [w |-> w, id |-> r.id, deadline |-> ExecTimeout, lease |-> r.lease]

\* A loop that decides on the poll's result instead of the returned vector: it
\* sleeps only when the poll found nothing.
RA_DispatchSleepsOnEmptyPoll(w) ==
    /\ w = "w1"
    /\ pc[w] = "dispatch"
    /\ UNCHANGED <<now, cfgVars, storeVars, inUse, pending, idx>>
    /\ IF Len(result[w]) = 0
       THEN /\ pc' = [pc EXCEPT ![w] = IF pass[w].polled = {} THEN "sleep"
                                                              ELSE "top"]
            /\ pass' = [pass EXCEPT ![w] = NoPass]
            /\ UNCHANGED <<result, running, execCount>>
       ELSE LET r == Head(result[w])
            IN /\ running' = running \cup {Execution(w, r)}
               /\ execCount' = [execCount EXCEPT ![r.id] = Min(@ + 1, MaxExec)]
               /\ result' = [result EXCEPT ![w] = Tail(@)]
               /\ IF Len(result[w]) = 1
                  THEN /\ pc' = [pc EXCEPT ![w] = "top"]
                       /\ pass' = [pass EXCEPT ![w] = NoPass]
                  ELSE UNCHANGED <<pc, pass>>

\* "if actions.len() == 0 { sleep } else { for ... runtime.spawn(timeout) }"
RA_Dispatch(w) ==
    /\ w = "w1"
    /\ pc[w] = "dispatch"
    /\ UNCHANGED <<now, cfgVars, storeVars, inUse, pending, idx>>
    /\ IF Len(result[w]) = 0
       THEN /\ pc' = [pc EXCEPT ![w] = "sleep"]
            /\ pass' = [pass EXCEPT ![w] = NoPass]
            /\ UNCHANGED <<result, running, execCount>>
       ELSE LET r == Head(result[w])
            IN /\ running' = running \cup {Execution(w, r)}
               /\ execCount' = [execCount EXCEPT ![r.id] = Min(@ + 1, MaxExec)]
               /\ result' = [result EXCEPT ![w] = Tail(@)]
               /\ IF Len(result[w]) = 1
                  THEN /\ pc' = [pc EXCEPT ![w] = "top"]
                       /\ pass' = [pass EXCEPT ![w] = NoPass]
                  ELSE UNCHANGED <<pc, pass>>

\* thread::sleep(interval) is over.
RA_Wake(w) ==
    /\ pc[w] = "sleep"
    /\ pc' = [pc EXCEPT ![w] = "top"]
    /\ UNCHANGED <<now, cfgVars, storeVars, inUse, pending, idx, result,
                   running, execCount, pass>>

\* ----------------------------------------------------------- run_til_empty
\* "for f in futures { runtime.block_on(timeout...).unwrap() }", and the break
\* when nothing was processed.
TE_Dispatch(w) ==
    /\ w = "w2"
    /\ pc[w] = "dispatch"
    /\ UNCHANGED <<now, cfgVars, storeVars, inUse, pending, idx>>
    /\ IF Len(result[w]) = 0
       THEN /\ pc' = [pc EXCEPT ![w] = "done"]
            /\ pass' = [pass EXCEPT ![w] = NoPass]
            /\ UNCHANGED <<result, running, execCount>>
       ELSE LET r == Head(result[w])
            IN /\ running' = running \cup {Execution(w, r)}
               /\ execCount' = [execCount EXCEPT ![r.id] = Min(@ + 1, MaxExec)]
               /\ result' = [result EXCEPT ![w] = Tail(@)]
               /\ pc' = [pc EXCEPT ![w] = "te_wait"]
               /\ UNCHANGED pass

\* run_til_empty is called again.
TE_Call(w) ==
    /\ w = "w2"
    /\ pc[w] = "done"
    /\ pc' = [pc EXCEPT ![w] = "top"]
    /\ UNCHANGED <<now, cfgVars, storeVars, inUse, pending, idx, result,
                   running, execCount, pass>>

\* -------------------------------------------------------------- executors
\* What the dispatcher that called the executor does when the call is over:
\* run_actions has spawned it and has moved on; run_til_empty is blocked on it,
\* unwraps the result, and panics on Err (the futures left are dropped).
AfterExecution(e, ok) ==
    IF e.w = "w1"
    THEN /\ inUse' = inUse - 1
         /\ UNCHANGED <<pc, result, pass>>
    ELSE IF ok
    THEN /\ inUse' = inUse - 1
         /\ UNCHANGED result
         /\ IF Len(result[e.w]) = 0
            THEN /\ pc' = [pc EXCEPT ![e.w] = "top"]
                 /\ pass' = [pass EXCEPT ![e.w] = NoPass]
            ELSE /\ pc' = [pc EXCEPT ![e.w] = "dispatch"]
                 /\ UNCHANGED pass
    ELSE /\ inUse' = inUse - (1 + Len(result[e.w]))
         /\ pc' = [pc EXCEPT ![e.w] = "panicked"]
         /\ result' = [result EXCEPT ![e.w] = <<>>]
         /\ UNCHANGED pass

\* The executor completes and records success on the action.
ExecSucceed(e) ==
    /\ e \in running
    /\ running' = running \ {e}
    /\ MarkSuccess(e.id)
    /\ AfterExecution(e, TRUE)
    /\ UNCHANGED <<now, cfgVars, busy_until, leases, pending, idx, execCount>>

\* The executor reports a failure of the action: it records it on the row.
ExecReportFailure(e) ==
    /\ e \in running
    /\ running' = running \ {e}
    /\ MarkErrored(e.id, "execution failed")
    /\ AfterExecution(e, FALSE)
    /\ UNCHANGED <<now, cfgVars, busy_until, leases, pending, idx, execCount>>

\* The executor call ends with an error it has not recorded on the action.
ExecFail(e) ==
    /\ e \in running
    /\ running' = running \ {e}
    /\ AfterExecution(e, FALSE)
    /\ UNCHANGED <<now, cfgVars, storeVars, pending, idx, execCount>>

\* A dispatcher that records a timeout on the action as an error.
ExecTimedOutMarked(e) ==
    /\ e \in running
    /\ e.deadline <= 0
    /\ running' = running \ {e}
    /\ MarkErrored(e.id, "timed out")
    /\ AfterExecution(e, FALSE)
    /\ UNCHANGED <<now, cfgVars, busy_until, leases, pending, idx, execCount>>

\* The Timeout fires at its deadline: the call is abandoned, the row untouched.
ExecTimedOut(e) ==
    /\ e \in running
    /\ e.deadline <= 0
    /\ running' = running \ {e}
    /\ AfterExecution(e, FALSE)
    /\ UNCHANGED <<now, cfgVars, storeVars, pending, idx, execCount>>

\* --------------------------------------------------------- specifications
Executors ==
    \/ \E e \in running : ExecSucceed(e)
    \/ \E e \in running : ExecReportFailure(e)
    \/ \E e \in running : ExecFail(e)
    \/ \E e \in running : ExecTimedOut(e)

FindActions ==
    \/ \E w \in Workers : FA_Poll(w)
    \/ \E w \in Workers : FA_Next(w)
    \/ \E w \in Workers : FA_SetBusy(w)
    \/ \E w \in Workers : FA_Route(w)

RunActions ==
    \/ \E w \in Workers : RA_Dispatch(w)
    \/ \E w \in Workers : RA_Wake(w)

RunTilEmpty ==
    \/ \E w \in Workers : TE_Dispatch(w)
    \/ \E w \in Workers : TE_Call(w)

Init ==
    InitWith(1..LeaseActions, {"w1", "w2"}, {MaxPool}, {"SendEmail"}, {0},
             {"Pending"})

Next ==
    \/ Tick
    \/ FindActions
    \/ RunActions
    \/ RunTilEmpty
    \/ Executors

Spec == Init /\ [][Next]_vars

\* The batch specification: run_actions alone over NumActions actions, some of
\* them left Busy with an expired lease by a dispatcher that is gone; time runs
\* until every action is due.
BatchInit ==
    /\ InitWith(1..NumActions, {"w1"}, 1..MaxPool, ActionTypes, {0, SchedLater},
                {"Pending", "Busy"})
    /\ \A a \in Ids : status[a] = "Busy" => scheduled_at[a] = 0

BatchTick == now < SchedLater /\ Tick

BatchNext ==
    \/ BatchTick
    \/ FindActions
    \/ RunActions
    \/ \E e \in running : ExecSucceed(e)
    \/ \E e \in running : ExecReportFailure(e)

SpecBatch == BatchInit /\ [][BatchNext]_vars

\* The synchronous drain: run_til_empty alone, called again whenever it has
\* returned.
TilEmptyInit ==
    InitWith(1..TilEmptyActions, {"w2"}, 1..MaxPool, {"SendEmail"},
             {0, SchedLater}, {"Pending"})

TilEmptyNext ==
    \/ Tick
    \/ FindActions
    \/ RunTilEmpty
    \/ Executors

SpecTilEmpty == TilEmptyInit /\ [][TilEmptyNext]_vars

\* run_actions alone, scheduled fairly: the loop's thread keeps running, the
\* store's clock advances, and a Timeout fires when its deadline has come.
RetryInit ==
    InitWith(1..RetryActions, {"w1"}, 1..MaxPool, {"SendEmail"}, {0},
             {"Pending"})

RetryNext ==
    \/ Tick
    \/ FindActions
    \/ RunActions
    \/ Executors

SpecRetry ==
    /\ RetryInit
    /\ [][RetryNext]_vars
    /\ WF_vars(Tick)
    /\ WF_vars(FindActions)
    /\ WF_vars(RunActions)
    /\ WF_vars(\E e \in running : ExecTimedOut(e))

\* The same loop over actions whose executor hangs in every call: each call
\* ends by its Timeout and records nothing.
HangNext ==
    \/ Tick
    \/ FindActions
    \/ RunActions
    \/ \E e \in running : ExecTimedOut(e)

SpecHang ==
    /\ RetryInit
    /\ [][HangNext]_vars
    /\ WF_vars(Tick)
    /\ WF_vars(FindActions)
    /\ WF_vars(RunActions)
    /\ WF_vars(\E e \in running : ExecTimedOut(e))

\* The race: both dispatchers over the same RaceActions actions while the
\* leases they take are live.
RaceInit ==
    InitWith(1..RaceActions, {"w1", "w2"}, {MaxPool}, {"SendEmail"},
             {0, SchedLater}, {"Pending"})

RaceNext ==
    \/ BatchTick
    \/ FindActions
    \/ RunActions
    \/ RunTilEmpty
    \/ \E e \in running : ExecSucceed(e)
    \/ \E e \in running : ExecReportFailure(e)

SpecRace == RaceInit /\ [][RaceNext]_vars

\* ------------------------------------------------- the publication loop
\* publish_events_to_actions: "if rx.try_recv().is_ok() { break; }" and Ok(()).
PE_Stop ==
    /\ pubPc = "top"
    /\ StopObserved("pub")
    /\ signal' = [signal EXCEPT !["pub"] = @ - 1]
    /\ pubPc' = "stopped"
    /\ UNCHANGED <<now, confVars, inUse, storeVars, pc,
                   localVars, running, execCount, pass, worker_threads, stopPc,
                   draining, pubVars>>

\* find_with_unpublished_domain_events(limit, ..): the first pairs, in the
\* log's order, that have no recorded publication, limit at most.
FindUnpublished(limit) ==
    [i \in 1..Min(limit, Cardinality(unpub)) |->
        CHOOSE p \in unpub : Cardinality({q \in unpub : q < p}) = i - 1]

\* A poll without a limit: every pair without a publication is in the batch.
PE_PollUnbounded ==
    /\ pubPc = "top"
    /\ ~StopObserved("pub")
    /\ IF PoolHasFree
       THEN /\ inUse' = inUse + 1
            /\ pubLeft' = FindUnpublished(Cardinality(unpub))
            /\ pubPass' = [batch |-> unpub, called |-> <<>>]
            /\ pubPc' = "publish"
       ELSE /\ pubPc' = "failed"
            /\ UNCHANGED <<inUse, pubLeft, pubPass>>
    /\ UNCHANGED <<now, confVars, storeVars, pc, localVars,
                   running, execCount, pass, worker_threads, signal, stopPc,
                   draining, unpub>>

\* find_and_publish_events: get_connection()?, then the poll for at most
\* PublishBatch pairs without a publication.
PE_Poll ==
    /\ pubPc = "top"
    /\ ~StopObserved("pub")
    /\ IF PoolHasFree
       THEN /\ inUse' = inUse + 1
            /\ pubLeft' = FindUnpublished(PublishBatch)
            /\ pubPass' = [batch |-> Range(FindUnpublished(PublishBatch)),
                           called |-> <<>>]
            /\ pubPc' = "publish"
       ELSE /\ pubPc' = "failed"
            /\ UNCHANGED <<inUse, pubLeft, pubPass>>
    /\ UNCHANGED <<now, confVars, storeVars, pc, localVars,
                   running, execCount, pass, worker_threads, signal, stopPc,
                   draining, unpub>>

\* A loop with the dispatch loop's policy: it sleeps only after a pass that
\* found nothing.
PE_PublishThenPollAgain ==
    /\ pubPc = "publish"
    /\ IF pubLeft = <<>>
       THEN /\ pubPc' = IF pubPass.batch = {} THEN "sleep" ELSE "top"
            /\ inUse' = inUse - 1
            /\ UNCHANGED pubVars
       ELSE /\ pubLeft' = Tail(pubLeft)
            /\ unpub' = unpub \ {Head(pubLeft)}
            /\ pubPass' = [pubPass EXCEPT !.called = Append(@, Head(pubLeft))]
            /\ UNCHANGED <<pubPc, inUse>>
    /\ UNCHANGED <<now, confVars, storeVars, pc, localVars,
                   running, execCount, pass, worker_threads, signal, stopPc,
                   draining>>

\* publisher.publish(..) succeeds for the next pair and records its
\* publication; after the last one the pass returns Ok, drops its connection,
\* and the loop sleeps.
PE_Publish ==
    /\ pubPc = "publish"
    /\ IF pubLeft = <<>>
       THEN /\ pubPc' = "sleep"
            /\ inUse' = inUse - 1
            /\ UNCHANGED pubVars
       ELSE /\ pubLeft' = Tail(pubLeft)
            /\ unpub' = unpub \ {Head(pubLeft)}
            /\ pubPass' = [pubPass EXCEPT !.called = Append(@, Head(pubLeft))]
            /\ UNCHANGED <<pubPc, inUse>>
    /\ UNCHANGED <<now, confVars, storeVars, pc, localVars,
                   running, execCount, pass, worker_threads, signal, stopPc,
                   draining>>

\* A pass that logs a failed publish and goes on with the next pair.
PE_PublishFailsGoesOn ==
    /\ pubPc = "publish"
    /\ pubLeft # <<>>
    /\ pubLeft' = Tail(pubLeft)
    /\ pubPass' = [pubPass EXCEPT !.called = Append(@, Head(pubLeft))]
    /\ UNCHANGED <<now, confVars, storeVars, pc, localVars, inUse, pubPc,
                   running, execCount, pass, worker_threads, signal, stopPc,
                   draining, unpub>>

\* publisher.publish(..)? fails: the error leaves the pass and the loop.
PE_PublishFails ==
    /\ pubPc = "publish"
    /\ pubLeft # <<>>
    /\ pubPc' = "failed"
    /\ pubLeft' = <<>>
    /\ pubPass' = [pubPass EXCEPT !.called = Append(@, Head(pubLeft))]
    /\ inUse' = inUse - 1
    /\ UNCHANGED <<now, confVars, storeVars, pc, localVars,
                   running, execCount, pass, worker_threads, signal, stopPc,
                   draining, unpub>>

\* thread::sleep(interval) is over.
PE_Wake ==
    /\ pubPc = "sleep"
    /\ pubPc' = "top"
    /\ UNCHANGED <<now, confVars, inUse, storeVars, pc,
                   localVars, running, execCount, pass, worker_threads, signal,
                   stopPc, draining, pubVars>>

Publication == PE_Stop \/ PE_Poll \/ PE_Publish \/ PE_PublishFails \/ PE_Wake

\* ---------------------------------------------------------- start and stop
\* run_actions: "if rx.try_recv().is_ok() { break; }" and Ok(()).  The return
\* drops the Runtime, which shuts down at once: a spawned future that has not
\* completed is either finishing the poll it is in or is dropped, with its
\* connection, where it stands.
RA_Stop(w) ==
    /\ pc[w] = "top"
    /\ StopObserved(w)
    /\ signal' = [signal EXCEPT ![w] = @ - 1]
    /\ pc' = [pc EXCEPT ![w] = "stopped"]
    /\ \E D \in SUBSET {e \in running : e.w = w} :
          /\ running' = running \ D
          /\ inUse' = inUse - Cardinality(D)
    /\ UNCHANGED <<now, confVars, storeVars, localVars,
                   execCount, pass, worker_threads, stopPc, draining, pubPc,
                   pubVars>>

\* The loop function has returned, and has dropped its Receiver.
Finished(l) ==
    IF l = "pub" THEN pubPc \in {"stopped", "failed"}
                 ELSE pc[l] \in {"stopped", "failed"}

\* What the loop's thread hands to join(): the closure around run_actions logs
\* an Err and returns Ok(()); the one around publish_events_to_actions returns
\* the loop's result.
ThreadResult(l) == IF l = "pub" /\ pubPc = "failed" THEN "Err" ELSE "Ok"

\* start(): both threads are spawned, sender and handle of each are recorded.
Start ==
    /\ pubPc = "unspawned"
    /\ pc["w1"] = "unspawned"
    /\ worker_threads' = worker_threads \o Loops
    /\ pc' = [pc EXCEPT !["w1"] = "top"]
    /\ pubPc' = "top"
    /\ UNCHANGED <<now, confVars, inUse, storeVars,
                   localVars, running, execCount, pass, signal, stopPc,
                   draining, pubVars>>

\* stop() is called, once, on a started monitor: drain(..) empties the list.
Stop_Call ==
    /\ stopPc = "idle"
    /\ worker_threads # <<>>
    /\ draining' = worker_threads
    /\ worker_threads' = <<>>
    /\ stopPc' = "send"
    /\ UNCHANGED <<now, confVars, inUse, storeVars, pc,
                   localVars, running, execCount, pass, signal, pubPc, pubVars>>

\* "w.0.send(()).unwrap()": send fails when the Receiver is gone, and the
\* unwrap panics; the Drain drops what it has not yielded.  With nothing left
\* to yield, stop() returns.
Stop_Send ==
    /\ stopPc = "send"
    /\ IF draining = <<>>
       THEN /\ stopPc' = "returned"
            /\ UNCHANGED <<draining, signal>>
       ELSE IF Finished(Head(draining))
       THEN /\ stopPc' = "panicked"
            /\ draining' = <<>>
            /\ UNCHANGED signal
       ELSE /\ signal' = [signal EXCEPT ![Head(draining)] = @ + 1]
            /\ stopPc' = "join"
            /\ UNCHANGED draining
    /\ UNCHANGED <<now, confVars, inUse, storeVars, pc,
                   localVars, running, execCount, pass, worker_threads, pubPc,
                   pubVars>>

\* A stop() that takes each handle without waiting for its thread to end.
Stop_JoinNoWait ==
    /\ stopPc = "join"
    /\ stopPc' = "send"
    /\ draining' = Tail(draining)
    /\ UNCHANGED <<now, confVars, inUse, storeVars, pc,
                   localVars, running, execCount, pass, worker_threads, signal,
                   pubPc, pubVars>>

\* "w.1.join().unwrap().unwrap()": blocks until the thread has ended, and
\* panics on the Err it returned.
Stop_Join ==
    /\ stopPc = "join"
    /\ Finished(Head(draining))
    /\ IF ThreadResult(Head(draining)) = "Err"
       THEN /\ stopPc' = "panicked"
            /\ draining' = <<>>
       ELSE /\ stopPc' = "send"
            /\ draining' = Tail(draining)
    /\ UNCHANGED <<now, confVars, inUse, storeVars, pc,
                   localVars, running, execCount, pass, worker_threads, signal,
                   pubPc, pubVars>>

Stop == Stop_Call \/ Stop_Send \/ Stop_Join

\* A monitor just constructed, over a store with the given actions and pairs.
NewMonitor(ids, pools, events) ==
    /\ now = 0
    /\ poolMax \in pools
    /\ inUse = 0
    /\ status = [a \in ids |-> "Pending"]
    /\ scheduled_at = [a \in ids |-> 0]
    /\ busy_until = [a \in ids |-> 0]
    /\ atype \in [ids -> ActionTypes]
    /\ last_error = [a \in ids |-> ""]
    /\ pc = [w \in {"w1"} |-> "unspawned"]
    /\ pending = [w \in {"w1"} |-> <<>>]
    /\ idx = [w \in {"w1"} |-> 0]
    /\ result = [w \in {"w1"} |-> <<>>]
    /\ running = {}
    /\ leases = {}
    /\ execCount = [a \in ids |-> 0]
    /\ pass = [w \in {"w1"} |-> NoPass]
    /\ \E n \in events : MonitorNew(n)
    /\ ApiNew
    /\ NoBusiness

\* The monitor from new() through start() to stop(), with both loops and the
\* executors, over a span of time shorter than a timeout.  Each loop is a
\* thread that keeps taking steps.
LifeInit == NewMonitor(1..StopActions, 1..MaxPool, 0..MaxEvents)

Dispatcher == FindActions \/ RunActions \/ RA_Stop("w1")

LifeNext ==
    \/ Dispatcher
    \/ \E e \in running : ExecSucceed(e)
    \/ \E e \in running : ExecReportFailure(e)
    \/ Publication
    \/ Start
    \/ Stop

SpecLife ==
    LifeInit /\ [][LifeNext]_vars /\ WF_vars(Dispatcher) /\ WF_vars(Publication)

\* The publication loop alone, never stopped, over a log with more pairs than
\* one batch takes.
PubInit == NewMonitor({}, {MaxPool}, 0..PubEvents)

PubNext ==
    \/ Start
    \/ PE_Poll
    \/ PE_Publish
    \/ PE_PublishFails
    \/ PE_Wake

SpecPub == PubInit /\ [][PubNext]_vars

\* ------------------------------------------------ the store's transitions
\* What a call of a terminal transition on action a has found and returned.
Called(op, a) ==
    [op |-> op, id |-> a, was |-> status[a], error_was |-> last_error[a],
     ret |-> "Ok"]

\* A caller marks action a done.
SetDone(a) ==
    /\ MarkSuccess(a)
    /\ storeCall' = Called("set_done", a)
    /\ UNCHANGED <<now, bizVars, poolMax, scheduled_at, atype, router, regLog, cancelling,
                   monitorVars, inUse, busy_until, leases, pc, localVars,
                   running, execCount, pass>>

\* A caller marks action a errored, with a message.
SetErrored(a, msg) ==
    /\ MarkErrored(a, msg)
    /\ storeCall' = Called("set_errored", a)
    /\ UNCHANGED <<now, bizVars, poolMax, scheduled_at, atype, router, regLog, cancelling,
                   monitorVars, inUse, busy_until, leases, pc, localVars,
                   running, execCount, pass>>

\* A caller cancels action a.
SetCancelled(a) ==
    /\ MarkCancelled(a)
    /\ storeCall' = Called("set_cancelled", a)
    /\ UNCHANGED <<now, bizVars, poolMax, scheduled_at, atype, router, regLog, cancelling,
                   monitorVars, inUse, busy_until, leases, pc, localVars,
                   running, execCount, pass>>

\* clear_pending_drip_actions: find_by_resource(.., Pending, ..) returns the
\* Pending actions of the event.
ClearPending_Find ==
    /\ cancelling = <<>>
    /\ \E a \in Ids : status[a] = "Pending"
    /\ cancelling' = SortBySchedule({a \in Ids : status[a] = "Pending"})
    /\ UNCHANGED <<now, bizVars, poolMax, scheduled_at, atype, router, regLog, storeCall,
                   monitorVars, inUse, storeVars, pc, localVars, running,
                   execCount, pass>>

\* clear_pending_drip_actions: set_cancelled(conn)? on the next action found.
ClearPending_Cancel ==
    /\ cancelling # <<>>
    /\ MarkCancelled(Head(cancelling))
    /\ storeCall' = Called("set_cancelled", Head(cancelling))
    /\ cancelling' = Tail(cancelling)
    /\ UNCHANGED <<now, bizVars, poolMax, scheduled_at, atype, router, regLog,
                   monitorVars, inUse, busy_until, leases, pc, localVars,
                   running, execCount, pass>>

ClearPending == ClearPending_Find \/ ClearPending_Cancel

\* The dispatch loop and the executors, with business logic cancelling the
\* pending actions of a resource.
CancelInit ==
    InitWith(1..CancelActions, {"w1"}, {MaxPool}, ActionTypes, {0}, {"Pending"})

CancelNext ==
    \/ Tick
    \/ FindActions
    \/ RunActions
    \/ Executors
    \/ ClearPending

SpecCancel == CancelInit /\ [][CancelNext]_vars

AllStatuses == {"Pending", "Busy"} \cup Terminal

\* The terminal transitions called on actions in every status.
StoreInit ==
    InitWith(1..StoreActions, {}, {MaxPool}, {"SendEmail"}, {0}, AllStatuses)

StoreNext ==
    \/ \E a \in Ids : SetDone(a)
    \/ \E a \in Ids : \E msg \in {"failed", "failed again"} : SetErrored(a, msg)
    \/ \E a \in Ids : SetCancelled(a)

SpecStore == StoreInit /\ [][StoreNext]_vars

\* --------------------------------------------------------------- the router
\* A register that keeps the executor a type already has.
RegisterKeepsFirst(t, e) ==
    /\ Len(regLog) <= MaxRegs
    /\ router' = [x \in DOMAIN router \cup {t} |->
                    IF x \in DOMAIN router THEN router[x] ELSE e]
    /\ regLog' = Append(regLog, [t |-> t, e |-> e])
    /\ UNCHANGED <<now, bizVars, poolMax, scheduled_at, atype, storeCall, cancelling,
                   monitorVars, inUse, storeVars, pc, localVars, running,
                   execCount, pass>>

\* router.register(action_type, executor): the mapping of the type is added or
\* overwritten.
Register(t, e) ==
    /\ Len(regLog) <= MaxRegs
    /\ router' = [x \in DOMAIN router \cup {t} |-> IF x = t THEN e ELSE router[x]]
    /\ regLog' = Append(regLog, [t |-> t, e |-> e])
    /\ UNCHANGED <<now, bizVars, poolMax, scheduled_at, atype, storeCall, cancelling,
                   monitorVars, inUse, storeVars, pc, localVars, running,
                   execCount, pass>>

ExecutorNames == {"SendEmailExecutor", "OtherExecutor"}

\* The router after create_router, and further register calls made on it.
RouterInit == InitWith({}, {}, {MaxPool}, {"SendEmail"}, {0}, {"Pending"})

RouterNext == \E t \in ActionTypes : \E e \in ExecutorNames : Register(t, e)

SpecRouter == RouterInit /\ [][RouterNext]_vars

\* ---------------------------------------------------- business logic
\* The payloads business logic gives to the actions it creates.
NoPayload == [event_id |-> 0, source_or_destination |-> "none"]
DripPayload(e, sd) == [event_id |-> e, source_or_destination |-> sd]

\* DomainAction::create(.., action_type, .., payload, main_table,
\* main_table_id), with schedule_at where the caller sets it.
NewDomainAction(t, payload, table, id, at) ==
    [domain_action_type |-> t, payload |-> payload, main_table |-> table,
     main_table_id |-> id, scheduled_at |-> at]

\* commit of new actions: each is inserted Pending, unleased, with the next id.
Commit(rows) ==
    LET n == Len(rows)
    IN /\ status' = status \o [i \in 1..n |-> "Pending"]
       /\ scheduled_at' = scheduled_at \o [i \in 1..n |-> rows[i].scheduled_at]
       /\ busy_until' = busy_until \o [i \in 1..n |-> 0]
       /\ atype' = atype \o [i \in 1..n |-> rows[i].domain_action_type]
       /\ last_error' = last_error \o [i \in 1..n |-> ""]
       /\ execCount' = execCount \o [i \in 1..n |-> 0]
       /\ resource' = resource \o
              [i \in 1..n |-> [main_table |-> rows[i].main_table,
                               main_table_id |-> rows[i].main_table_id,
                               payload |-> rows[i].payload]]

\* The ids commit gives to n new actions.
NewIds(n) == (Len(status) + 1)..(Len(status) + n)

\* A find_by_resource that does not look at main_table_id.
FindByResourceOfAnyOwner(table, id, t, st) ==
    {a \in DOMAIN resource :
        /\ resource[a].main_table = table
        /\ atype[a] = t
        /\ status[a] = st}

\* A find_by_resource that does not look at the status.
FindByResourceOfAnyStatus(table, id, t, st) ==
    {a \in DOMAIN resource :
        /\ resource[a].main_table = table
        /\ resource[a].main_table_id = id
        /\ atype[a] = t}

\* DomainAction::find_by_resource(main_table, main_table_id, action_type,
\* status, conn): the actions whose four columns equal the arguments.
FindByResource(table, id, t, st) ==
    {a \in DOMAIN resource :
        /\ resource[a].main_table = table
        /\ resource[a].main_table_id = id
        /\ atype[a] = t
        /\ status[a] = st}

\* What a call of business logic has been given, has returned and has created.
BizCalled(op, self, ret, created) ==
    [op |-> op, self |-> self, ret |-> ret, created |-> created]

\* Event::find(id, conn): the caller holds a copy of the row as it is now.
Event_Find(e) ==
    /\ Cardinality(held) < MaxHeld
    /\ held' = held \cup {[id |-> e] @@ db_events[e]}
    /\ UNCHANGED <<bizFrame, actionRows, db_events, broadcasts, bizCall>>

\* A publish that does not look at the event's status first.
Event_PublishWhateverStatus(self) ==
    /\ self \in held
    /\ held' = held \ {self}
    /\ UNCHANGED <<bizFrame, broadcasts>>
    /\ IF ~self.venue_id \/ ~self.promo_image_url
       THEN /\ bizCall' = BizCalled("publish", self, "Err", {})
            /\ UNCHANGED <<actionRows, db_events>>
       ELSE /\ Len(status) < MaxBizActions
            /\ db_events' = [db_events EXCEPT ![self.id].status = "Published"]
            /\ Commit(<<NewDomainAction("RegenerateDripActions", NoPayload,
                                        "Events", self.id, now)>>)
            /\ bizCall' = BizCalled("publish", self, "Ok", NewIds(1))

\* Event::publish(&self, ..): an event that is Published already is returned
\* as it is; one without venue or promo image is refused; otherwise the row
\* becomes Published and regenerate_drip_actions creates its action.
Event_Publish(self) ==
    /\ self \in held
    /\ held' = held \ {self}
    /\ UNCHANGED <<bizFrame, broadcasts>>
    /\ IF self.status = "Published"
       THEN /\ bizCall' = BizCalled("publish", self, "Ok", {})
            /\ UNCHANGED <<actionRows, db_events>>
       ELSE IF ~self.venue_id \/ ~self.promo_image_url
       THEN /\ bizCall' = BizCalled("publish", self, "Err", {})
            /\ UNCHANGED <<actionRows, db_events>>
       ELSE /\ Len(status) < MaxBizActions
            /\ db_events' = [db_events EXCEPT ![self.id].status = "Published"]
            /\ Commit(<<NewDomainAction("RegenerateDripActions", NoPayload,
                                        "Events", self.id, now)>>)
            /\ bizCall' = BizCalled("publish", self, "Ok", NewIds(1))

\* set_cancelled as the store applies it to a row's status.
Cancelled(st) == IF st \in Terminal THEN st ELSE "Cancelled"

\* Event::unpublish(&self, ..): an event that is not Published is refused;
\* otherwise the row becomes Draft and clear_pending_drip_actions cancels the
\* event's Pending ProcessTransferDrip actions.
Event_Unpublish(self) ==
    /\ self \in held
    /\ held' = held \ {self}
    /\ UNCHANGED <<bizFrame, broadcasts, scheduled_at, busy_until, atype,
                   last_error, execCount, resource>>
    /\ IF self.status # "Published"
       THEN /\ bizCall' = BizCalled("unpublish", self, "Err", {})
            /\ UNCHANGED <<status, db_events>>
       ELSE LET drip_domain_actions ==
                    FindByResource("Events", self.id, "ProcessTransferDrip",
                                   "Pending")
            IN /\ db_events' = [db_events EXCEPT ![self.id].status = "Draft"]
               /\ status' = [a \in DOMAIN status |->
                               IF a \in drip_domain_actions
                               THEN Cancelled(status[a]) ELSE status[a]]
               /\ bizCall' = BizCalled("unpublish", self, "Ok", {})

\* Event::create_next_transfer_drip_action: when the event has a next drip
\* date, a ProcessTransferDrip action of the event, for the destination side,
\* is scheduled at that date.
Event_CreateNextTransferDripAction(e, next_drip_date) ==
    /\ UNCHANGED <<bizFrame, db_events, held, broadcasts>>
    /\ IF next_drip_date = <<>>
       THEN /\ bizCall' = BizCalled("create_next_transfer_drip_action",
                                    [id |-> e], "Ok", {})
            /\ UNCHANGED actionRows
       ELSE /\ Len(status) < MaxBizActions
            /\ Commit(<<NewDomainAction("ProcessTransferDrip",
                                        DripPayload(e, "Destination"),
                                        "Events", e, next_drip_date[1])>>)
            /\ bizCall' = BizCalled("create_next_transfer_drip_action",
                                    [id |-> e], "Ok", NewIds(1))

\* Transfer::create_drip_actions(&event, conn): one ProcessTransferDrip action
\* of the transfer for the source side and one for the destination side.
Transfer_CreateDripActions(t, e) ==
    /\ Len(status) + 2 <= MaxBizActions
    /\ Commit(<<NewDomainAction("ProcessTransferDrip", DripPayload(e, "Source"),
                                "Transfers", t, now),
                NewDomainAction("ProcessTransferDrip",
                                DripPayload(e, "Destination"),
                                "Transfers", t, now)>>)
    /\ bizCall' = BizCalled("create_drip_actions", [id |-> t], "Ok", NewIds(2))
    /\ UNCHANGED <<bizFrame, db_events, held, broadcasts>>

\* Broadcast::custom_type_has_message: a Custom broadcast needs a message that
\* is not empty.
CustomTypeHasMessage(notification_type, message) ==
    \/ notification_type = "LastCall"
    \/ notification_type = "Custom" /\ message # <<>> /\ message[1] # ""

\* A commit that schedules the action at the default whatever send_at is.
NewBroadcast_CommitAtDefault(self) ==
    /\ UNCHANGED <<bizFrame, db_events, held>>
    /\ IF ~CustomTypeHasMessage(self.notification_type, self.message)
       THEN /\ bizCall' = BizCalled("commit", self, "Err", {})
            /\ UNCHANGED <<actionRows, broadcasts>>
       ELSE /\ Len(status) < MaxBizActions
            /\ Len(broadcasts) < MaxBroadcasts
            /\ broadcasts' = Append(broadcasts, self)
            /\ Commit(<<NewDomainAction(
                          "BroadcastPushNotification",
                          [event_id |-> self.event_id,
                           source_or_destination |-> "none"],
                          "Broadcasts", Len(broadcasts) + 1, now)>>)
            /\ bizCall' = BizCalled("commit", self, "Ok", NewIds(1))

\* NewBroadcast::commit: validate_record, the insert of the broadcast, and the
\* BroadcastPushNotification action that refers to it, scheduled at send_at
\* when there is one.
NewBroadcast_Commit(self) ==
    /\ UNCHANGED <<bizFrame, db_events, held>>
    /\ IF ~CustomTypeHasMessage(self.notification_type, self.message)
       THEN /\ bizCall' = BizCalled("commit", self, "Err", {})
            /\ UNCHANGED <<actionRows, broadcasts>>
       ELSE /\ Len(status) < MaxBizActions
            /\ Len(broadcasts) < MaxBroadcasts
            /\ broadcasts' = Append(broadcasts, self)
            /\ Commit(<<NewDomainAction(
                          "BroadcastPushNotification",
                          [event_id |-> self.event_id,
                           source_or_destination |-> "none"],
                          "Broadcasts", Len(broadcasts) + 1,
                          IF self.send_at = <<>> THEN now ELSE self.send_at[1])>>)
            /\ bizCall' = BizCalled("commit", self, "Ok", NewIds(1))

\* The broadcasts a caller may ask for.
NewBroadcasts ==
    [notification_type : {"LastCall", "Custom"},
     message : {<<>>, <<"">>, <<" ">>, <<"Doors open">>},
     send_at : {<<>>} \cup {<<t>> : t \in 0..SchedLater},
     event_id : 1..BizEvents]

\* A terminal transition on an action business logic has created.
Biz_SetDone(a) ==
    /\ status[a] = "Pending"
    /\ SetDone(a)

\* The store's clock, with no dispatcher and no executor call.
Biz_Tick ==
    /\ now < SchedLater
    /\ now' = now + 1
    /\ UNCHANGED <<poolMax, inUse, leases, pc, localVars, running, pass,
                   monitorVars, apiVars, actionRows, bizVars>>

\* The events table before any call: each event is Draft or Published, with
\* or without venue and promo image.
EventRows == [status : {"Draft", "Published"}, venue_id : BOOLEAN,
              promo_image_url : BOOLEAN]

\* Business logic alone on a store without actions, over events with the
\* given rows.
BizInit(rows) ==
    /\ now = 0
    /\ poolMax = MaxPool
    /\ inUse = 0
    /\ status = <<>>
    /\ scheduled_at = <<>>
    /\ busy_until = <<>>
    /\ atype = <<>>
    /\ last_error = <<>>
    /\ pc = <<>>
    /\ pending = <<>>
    /\ idx = <<>>
    /\ result = <<>>
    /\ running = {}
    /\ leases = {}
    /\ execCount = <<>>
    /\ pass = <<>>
    /\ MonitorNew(0)
    /\ ApiNew
    /\ resource = <<>>
    /\ db_events \in [1..BizEvents -> rows]
    /\ held = {}
    /\ broadcasts = <<>>
    /\ bizCall = NoBizCall

\* Events found, published and unpublished, by callers that may hold a copy
\* of a row while another changes it.
PublishInit == BizInit(EventRows)

PublishNext ==
    \/ \E e \in DOMAIN db_events : Event_Find(e)
    \/ \E self \in held : Event_Publish(self)
    \/ \E self \in held : Event_Unpublish(self)

SpecPublish == PublishInit /\ [][PublishNext]_vars

\* Events that can be published, their drip actions and those of transfers.
DripInit == BizInit({r \in EventRows : r.venue_id /\ r.promo_image_url})

DripNext ==
    \/ \E e \in DOMAIN db_events : Event_Find(e)
    \/ \E self \in held : Event_Publish(self)
    \/ \E self \in held : Event_Unpublish(self)
    \/ \E e \in DOMAIN db_events :
          \E d \in {<<>>, <<SchedLater>>} :
             Event_CreateNextTransferDripAction(e, d)
    \/ \E t \in 1..BizTransfers : \E e \in DOMAIN db_events :
          Transfer_CreateDripActions(t, e)
    \/ \E a \in Ids : Biz_SetDone(a)

SpecDrip == DripInit /\ [][DripNext]_vars

\* A caller asks the store for the actions of a resource.
DomainAction_FindByResource(table, id, t, st) ==
    /\ bizCall' = [op |-> "find_by_resource",
                   self |-> [main_table |-> table, main_table_id |-> id,
                             domain_action_type |-> t, status |-> st],
                   ret |-> "Ok", created |-> {},
                   found |-> FindByResource(table, id, t, st)]
    /\ UNCHANGED <<bizFrame, actionRows, db_events, held, broadcasts>>

\* The drip actions of events and of transfers, created, completed and looked
\* up.
ResourceNext ==
    \/ \E e \in DOMAIN db_events :
          \E d \in {<<>>, <<SchedLater>>} :
             Event_CreateNextTransferDripAction(e, d)
    \/ \E t \in 1..BizTransfers : \E e \in DOMAIN db_events :
          Transfer_CreateDripActions(t, e)
    \/ \E a \in Ids : Biz_SetDone(a)
    \/ \E table \in {"Events", "Transfers"} :
          \E id \in 1..BizEvents :
             \E t \in {"ProcessTransferDrip", "RegenerateDripActions"} :
                \E st \in {"Pending", "Success"} :
                   DomainAction_FindByResource(table, id, t, st)

ResourceInit ==
    BizInit({[status |-> "Published", venue_id |-> TRUE,
              promo_image_url |-> TRUE]})

SpecResource == ResourceInit /\ [][ResourceNext]_vars

\* Broadcasts committed while the store's clock advances.
BroadcastInit == BizInit({r \in EventRows : r.status = "Published"
                                            /\ r.venue_id /\ r.promo_image_url})

BroadcastNext ==
    \/ \E self \in NewBroadcasts : NewBroadcast_Commit(self)
    \/ Biz_Tick

SpecBroadcast == BroadcastInit /\ [][BroadcastNext]_vars

\* ------------------------------------------------------------- properties
IdsOf(s) == {s[i].id : i \in 1..Len(s)}

\* This step is the lease attempt (set_busy) of dispatcher w.
LeaseAttempt(w) == pc[w] = "fa_busy" /\ pc'[w] # "fa_busy"

\* This step is a poll of dispatcher w that reached the store.
PollStep(w) == pc[w] = "top" /\ pc'[w] \in {"fa_loop", "dispatch"}

\* This step hands the head of w's result to its executor.
DispatchStep(w) == pc[w] = "dispatch" /\ Len(result'[w]) < Len(result[w])

\* find_actions has returned Ok to dispatcher w, which has not moved on yet.
PassReturned(w) == pass[w].returned >= 0

\* C1: lease exclusivity.  At every moment at most one lease on an action is
\* live; and a lease attempt on an action fails with ConcurrencyError (the
\* action is skipped, no lease is granted) exactly when another lease on it is
\* live, and succeeds when none is and the action is not terminal: so of two
\* dispatchers attempting the same action, one succeeds and the other fails.
LeaseExclusivity ==
    /\ [](\A a \in Ids : Cardinality({l \in leases : l.id = a}) <= 1)
    /\ [][\A w \in Workers :
            LeaseAttempt(w) =>
              LET a == Current(w)
              IN IF \E l \in leases : l.id = a
                 THEN /\ a \in pass'[w].skipped
                      /\ a \notin pass'[w].leased
                      /\ leases' = leases
                 ELSE status[a] \notin Terminal =>
                        /\ a \in pass'[w].leased
                        /\ a \notin pass'[w].skipped
                        /\ \E l \in leases' : l.id = a /\ l.w = w]_vars

\* C1: one dispatcher holds the live lease on an action it leased in its current
\* pass while the other, in its own pass, has got ConcurrencyError for it.
TwoAttemptsOneLease ==
    \E w, v \in Workers : \E a \in Ids :
        /\ w # v
        /\ a \in pass[w].leased
        /\ \E l \in leases : l.id = a /\ l.w = w
        /\ a \in pass[v].skipped

\* C2: every executor call started by run_actions is over (completed, or at its
\* timeout) before the lease taken for its action expires, and no action is
\* being executed twice at the same time.
TimeoutBeforeLeaseExpiry ==
    /\ \A e \in running : e.w = "w1" => (e.lease > 0 \/ e.deadline <= 0)
    /\ \A e1, e2 \in running : e1.id = e2.id => e1 = e2

TerminalAbsorbing ==
    [][/\ \A a \in Ids :
            status[a] \in Terminal =>
                /\ status'[a] = status[a]
                /\ busy_until'[a] <= busy_until[a]
       /\ \A w \in Workers :
            DispatchStep(w) => status[Head(result[w]).id] \notin Terminal]_vars

\* C5: when a pass has met an action without a registered executor, that action
\* is Errored and the loop goes on (run_actions has not returned).
MissingExecutorLoopContinues ==
    \A w \in Workers :
        pass[w].err = "NoExecutor" =>
            /\ \E d \in pass[w].polled :
                   atype[d] \notin Registered /\ status[d] = "Errored"
            /\ pc[w] # "failed"

\* The batch of a pass: the first Limit actions of its poll.
BatchOf(w) ==
    LET s == SortBySchedule(pass[w].polled)
    IN {s[i] : i \in 1..Min(Len(s), Limit(poolMax))}

\* C6: when a pass has met an action D without a registered executor, D is
\* Errored, the pass has reported the error, and every other action of the
\* batch has been handed to its executor.
MissingExecutorOthersExecuted ==
    \A w \in Workers :
        pass[w].err = "NoExecutor" =>
            /\ \E d \in pass[w].polled :
                   atype[d] \notin Registered /\ status[d] = "Errored"
            /\ pc[w] = "failed"
            /\ \A a \in BatchOf(w) :
                   atype[a] \in Registered => execCount[a] > 0

\* C7: a pass of run_til_empty whose poll found a single action, Pending and
\* with a registered executor, ends (the executor having succeeded, when it was
\* called) with the action in Success and its executor invoked exactly once;
\* on the way the action goes from Pending to Busy to Success only.
SingleActionPass ==
    [][\A w \in Workers : \A a \in Ids :
         (pass[w].polled = {a} /\ pass[w].relet = {}
              /\ atype[a] \in Registered) =>
            /\ (pc[w] \in {"dispatch", "te_wait"} /\ pc'[w] \in {"top", "done"}) =>
                  status'[a] = "Success" /\ execCount'[a] = 1
            /\ (status'[a] # status[a] /\ pc'[w] # "panicked") =>
                  <<status[a], status'[a]>> \in
                      {<<"Pending", "Busy">>, <<"Busy", "Success">>}]_vars

\* C8: an action whose scheduled_at is later than the store time is Pending, has
\* never been executed and is in no pass's poll or lease set; and within a pass
\* every action already attempted is scheduled no later than every action not
\* yet attempted, the result being in that order too.
NoFutureActionInOrder ==
    /\ \A a \in Ids :
           scheduled_at[a] > now =>
               /\ status[a] = "Pending"
               /\ execCount[a] = 0
               /\ busy_until[a] = 0
               /\ \A w \in Workers :
                      a \notin pass[w].polled \cup pass[w].leased
                               \cup Range(pending[w]) \cup IdsOf(result[w])
    /\ \A w \in Workers :
           /\ \A i, j \in 1..Len(pending[w]) :
                  i < j => scheduled_at[pending[w][i]] <= scheduled_at[pending[w][j]]
           /\ \A i, j \in 1..Len(result[w]) :
                  i < j => scheduled_at[result[w][i].id] <= scheduled_at[result[w][j].id]
           /\ \A i \in 1..Len(pending[w]) :
                  i > idx[w] + 1 =>
                      \A a \in pass[w].leased \cup pass[w].skipped :
                          scheduled_at[a] <= scheduled_at[pending[w][i]]

\* C8: a pass has leased a due action and is in its loop with a later-scheduled
\* action of the same poll still ahead.
LeasedInOrder ==
    \E w \in Workers : \E a \in pass[w].leased :
        \E i \in 1..Len(pending[w]) :
            /\ i > idx[w] + 1
            /\ scheduled_at[a] < scheduled_at[pending[w][i]]

\* C9: a pass leases, and returns, at most max(1, connection_pool.max / 2)
\* actions.
BatchCap ==
    \A w \in Workers :
        /\ Cardinality(pass[w].leased) <= Limit(poolMax)
        /\ pass[w].returned <= Limit(poolMax)

\* C10: no acquisition of a per-action connection finds the pool exhausted.
NoAcquisitionFails == \A w \in Workers : ~pass[w].poolFail

\* C11: a lease attempt that fails with ConcurrencyError does not end the pass:
\* the action is skipped (nothing is written to it, it is not put on the
\* result) and the loop goes on with the next action of the poll; the pass
\* never comes back to a skipped action, leases it or hands it to an executor.
ConcurrencyErrorSkips ==
    /\ [][\A w \in Workers :
            (LeaseAttempt(w) /\ ~Leasable(Current(w))) =>
                /\ pc'[w] = "fa_loop"
                /\ idx'[w] = idx[w] + 1
                /\ pending'[w] = pending[w]
                /\ result'[w] = result[w]
                /\ pass'[w].err = ""
                /\ status' = status /\ busy_until' = busy_until]_vars
    /\ [](\A w \in Workers : \A a \in pass[w].skipped :
            /\ a \notin pass[w].leased
            /\ a \notin IdsOf(result[w])
            /\ pc[w] # "failed"
            /\ \A i \in 1..Len(pending[w]) : pending[w][i] = a => i <= idx[w])

\* C11: a pass has skipped one action on ConcurrencyError and has gone on to
\* lease a later action of its poll, whose executor call is in flight.
SkippedThenDispatched ==
    \E e \in running : \E a \in pass[e.w].skipped :
        /\ e.id \in pass[e.w].leased
        /\ Before(a, e.id)

\* This step ends the executor call e.
CallEnds(e) == e \in running /\ running' = running \ {e}

ReportedFailureIsFinal ==
    [][/\ \A e \in running :
            (CallEnds(e) /\ status[e.id] = "Busy" /\ status'[e.id] = "Errored") =>
                last_error'[e.id] # ""
       /\ \A a \in Ids :
            status[a] = "Errored" =>
                status'[a] = "Errored" /\ last_error'[a] = last_error[a]
       /\ \A w \in Workers :
            DispatchStep(w) => status[Head(result[w]).id] # "Errored"]_vars

\* C14: no action-level error ends a loop: neither dispatcher has panicked on an
\* executor call's failure or timeout, or has returned the error of a missing
\* executor.
NoActionErrorEscapes ==
    \A w \in Workers :
        /\ pc[w] # "panicked"
        /\ ~(pc[w] = "failed" /\ pass[w].err = "NoExecutor")

\* C15: when the pool has no connection for the next action of a pass, the
\* pass takes no further action and returns Ok with exactly the actions it had
\* leased; the action it was about to take is not leased and its row is
\* unchanged (a Pending action stays Pending).
NoConnectionForNext(w) ==
    /\ pc[w] = "fa_loop"
    /\ idx[w] < Len(pending[w])
    /\ ~CapReached(Limit(poolMax), idx[w])
    /\ ~PoolHasFree

PoolBreakReturnsLeased ==
    [][\A w \in Workers :
         (NoConnectionForNext(w) /\ pc'[w] # pc[w]) =>
            /\ pc'[w] = "dispatch"
            /\ result'[w] = result[w]
            /\ pass'[w].returned = Len(result[w])
            /\ IdsOf(result'[w]) = pass[w].leased
            /\ Current(w) \notin IdsOf(result'[w])
            /\ status' = status
            /\ busy_until' = busy_until
            /\ leases' = leases]_vars

PoolBreakAfterLease ==
    \E w \in Workers :
        /\ pc[w] = "dispatch"
        /\ pass[w].poolFail
        /\ pass[w].returned >= 1
        /\ \E a \in pass[w].polled \ pass[w].leased : status[a] = "Pending"

\* This step ends a pass of run_actions: the loop goes to sleep or back to its
\* top.
PassEnds(w) == pc[w] = "dispatch" /\ pc'[w] \in {"sleep", "top"}

\* C16: the dispatch loop sleeps before re-polling exactly when the poll found
\* no due action, and re-polls at once whenever due actions were found.
SleepsIffNoneFound ==
    [][\A w \in Workers :
         PassEnds(w) => (pc'[w] = "sleep" <=> pass[w].polled = {})]_vars

\* C16, restated: the dispatch loop sleeps before re-polling exactly when the
\* pass leased no action (none was found, or none of those found could be
\* leased), and re-polls at once whenever it dispatched at least one.
SleepsIffNoneLeased ==
    [][\A w \in Workers :
         PassEnds(w) => (pc'[w] = "sleep" <=> pass[w].leased = {})]_vars

FoundButNoneLeased ==
    \E w \in Workers :
        /\ w = "w1"
        /\ pc[w] = "dispatch"
        /\ pass[w].polled # {}
        /\ pass[w].leased = {}
        /\ pass[w].returned = 0
        /\ ~pass[w].poolFail

\* Where loop l stands.
LoopAt(l) == IF l = "pub" THEN pubPc ELSE pc[l]

\* C17: a loop with a stop signal waiting leaves its loop top only by returning
\* Ok, without another poll; it returns on a signal from nowhere but the loop
\* top, so a signal sent in the middle of a pass does not interrupt the pass;
\* and a loop that was sent a signal does end.
StopAtNextLoopTop ==
    /\ [][\A l \in Range(Loops) :
            /\ (signal[l] > 0 /\ LoopAt(l) = "top" /\ LoopAt(l)' # "top") =>
                   LoopAt(l)' = "stopped"
            /\ (LoopAt(l) # "stopped" /\ LoopAt(l)' = "stopped") =>
                   (LoopAt(l) = "top" /\ signal[l] > 0)]_vars
    /\ \A l \in Range(Loops) : (signal[l] > 0) ~> Finished(l)

BothLoopsStopped == pc["w1"] = "stopped" /\ pubPc = "stopped"

\* C18: the return of the dispatch loop on a stop signal aborts no executor
\* call in flight: every call dispatched before the signal was observed is
\* still running after that step.
StopLeavesWorkInFlight ==
    [][\A w \in Workers :
         (pc[w] = "top" /\ pc'[w] = "stopped") => running' = running]_vars

\* C19: when stop(), called after start(), has returned, it has sent a stop
\* signal to each of the two loops, both loops have returned, and the
\* monitor's worker list is empty.
StopReturnsAfterBothLoops ==
    stopPc = "returned" =>
        /\ \A l \in Range(Loops) :
              /\ Finished(l)
              /\ LoopAt(l) = "stopped" \/ signal[l] > 0
        /\ worker_threads = <<>>
        /\ draining = <<>>

StopReturned == stopPc = "returned" /\ \A l \in Range(Loops) : LoopAt(l) = "stopped"

\* C20: stop() returns normally only if neither loop ended with an error, and
\* it does not panic when both loops ended normally.
StopSurfacesLoopErrors ==
    /\ stopPc = "returned" => \A l \in Range(Loops) : LoopAt(l) # "failed"
    /\ stopPc = "panicked" => \E l \in Range(Loops) : LoopAt(l) = "failed"

\* C21: run_til_empty returns Ok only at the end of a pass whose poll found no
\* action, so that no action that was due at that poll is Pending when it
\* returns.
DrainedWhenReturned ==
    [][\A w \in Workers :
         (pc[w] = "dispatch" /\ pc'[w] = "done") =>
            /\ pass[w].polled = {}
            /\ \A a \in Ids :
                  ~(status'[a] = "Pending" /\ scheduled_at[a] = 0)]_vars

\* C22: every publication pass that ends without error is followed by the
\* sleep, whatever it found, and the loop comes back to its top, where the next
\* pass starts, from the sleep only: two passes are a sleep apart.
SleepAfterEveryPass ==
    [][/\ (pubPc = "publish" /\ pubPc' # "publish") => pubPc' \in {"sleep", "failed"}
       /\ (pubPc # "top" /\ pubPc' = "top") => pubPc \in {"sleep", "unspawned"}
       /\ (pubPc = "sleep" /\ pubPc' # "sleep") => pubPc' = "top"]_vars

SleepsAfterPublishing ==
    pubPc = "sleep" /\ pubPass.batch # {} /\ Len(pubPass.called) = Cardinality(pubPass.batch)

\* C23: in a publication pass publish is invoked at most once per pair, in the
\* poll's order, and for pairs of the poll's batch only, which are at most
\* PublishBatch pairs that had no publication; when the pass has ended without
\* error it has been invoked for every pair of the batch; and no step of the
\* pass creates or changes an action.
PublishOncePerPair ==
    /\ [](/\ Cardinality(pubPass.batch) <= PublishBatch
          /\ \A i, j \in 1..Len(pubPass.called) :
                i < j => pubPass.called[i] < pubPass.called[j]
          /\ Range(pubPass.called) \subseteq pubPass.batch
          /\ Range(pubLeft) \subseteq pubPass.batch \ Range(pubPass.called)
          /\ pubPc \in {"publish", "sleep"} =>
                Range(pubPass.called) \cup Range(pubLeft) = pubPass.batch
          /\ pubPc = "sleep" => pubLeft = <<>>)
    /\ [][/\ (pubPc = "top" /\ pubPc' = "publish") =>
                /\ pubPass'.batch \subseteq unpub
                /\ \A p \in pubPass'.batch : \A q \in unpub \ pubPass'.batch : p < q
                /\ pubPass'.called = <<>>
          /\ pubPc \in {"top", "publish"} =>
                (status' = status /\ scheduled_at' = scheduled_at /\ atype' = atype)]_vars

FullBatchPublished ==
    /\ pubPc = "sleep"
    /\ Cardinality(pubPass.batch) = PublishBatch
    /\ Len(pubPass.called) = PublishBatch
    /\ unpub # {}

\* The loop that is not l.
OtherLoop(l) == IF l = "pub" THEN "w1" ELSE "pub"

\* Loop l has polled, or has ended on the error of its poll.
HasPolled(l) == LoopAt(l) \in {"fa_loop", "dispatch", "publish", "failed"}

\* C24: the step in which one loop ends, on its stop signal or on an error,
\* changes neither the other loop's position nor the other loop's channel; a
\* loop returns on its own signal only; and a loop at its top whose channel is
\* empty polls again although the other loop has ended, unless its own signal
\* arrives first.
LoopsIndependent ==
    /\ [][\A l \in Range(Loops) :
            /\ (~Finished(l) /\ Finished(l)') =>
                  /\ LoopAt(OtherLoop(l))' = LoopAt(OtherLoop(l))
                  /\ signal'[OtherLoop(l)] = signal[OtherLoop(l)]
            /\ (LoopAt(l) # "stopped" /\ LoopAt(l)' = "stopped") =>
                  /\ signal[l] > 0
                  /\ signal'[l] = signal[l] - 1]_vars
    /\ \A l \in Range(Loops) :
          (Finished(OtherLoop(l)) /\ LoopAt(l) = "top" /\ signal[l] = 0)
              ~> (HasPolled(l) \/ signal[l] > 0)

PollsAfterOtherEnded ==
    \E l \in Range(Loops) :
        /\ Finished(OtherLoop(l))
        /\ LoopAt(l) \in {"fa_loop", "publish"}
        /\ signal[l] = 0

\* C25: with the dispatch loop running, every action with a registered
\* executor that is Pending and due is eventually leased and handed to its
\* executor, whatever the pool's capacity.
DueActionEventuallyExecuted ==
    \A a \in 1..RetryActions :
        (status[a] = "Pending" /\ scheduled_at[a] <= now /\ atype[a] \in Registered)
            ~> (execCount[a] >= 1)

\* C26: set_done, set_errored or set_cancelled called on an action that is in
\* a terminal status returns without error and leaves the action's status and
\* last_error as they were.
TerminalTransitionsIdempotent ==
    (storeCall.op # "none" /\ storeCall.was \in Terminal) =>
        /\ storeCall.ret = "Ok"
        /\ status[storeCall.id] = storeCall.was
        /\ last_error[storeCall.id] = storeCall.error_was

ErroredCalledOnTerminal ==
    /\ storeCall.op = "set_errored"
    /\ storeCall.was = "Success"
    /\ status[storeCall.id] = "Success"

\* The places in the log of the register calls made for type t.
RegisteredAt(t) == {i \in 1..Len(regLog) : regLog[i].t = t}

\* C27: after any sequence of register calls get_executor_for(t) is the
\* executor of the last register call made for t, and is none exactly when no
\* register call was made for t.
LastRegistrationWins ==
    \A t \in ActionTypes :
        /\ RegisteredAt(t) = {} <=> GetExecutorFor(t) = "none"
        /\ \A i \in RegisteredAt(t) :
              (\A j \in RegisteredAt(t) : j <= i) => GetExecutorFor(t) = regLog[i].e

RegisteredTwice ==
    /\ \E i, j \in RegisteredAt("SendEmail") :
          i < j /\ regLog[i].e # regLog[j].e /\ \A k \in RegisteredAt("SendEmail") : k <= j
    /\ GetExecutorFor("SendEmail") = "OtherExecutor"
    /\ GetExecutorFor("Foo") = "none"

\* C28: an action's status changes from Pending to Busy, from Busy to Success,
\* from Busy to Errored and from Pending to Cancelled only; a lease is renewed
\* on a Busy action only when it has expired; and the pass that marks an action
\* Errored for want of an executor has leased it.
StatusTransitions ==
    [][/\ \A a \in Ids :
            /\ status'[a] # status[a] =>
                  <<status[a], status'[a]>> \in
                      {<<"Pending", "Busy">>, <<"Busy", "Success">>,
                       <<"Busy", "Errored">>, <<"Pending", "Cancelled">>}
            /\ (status[a] = "Busy" /\ busy_until'[a] > busy_until[a]) =>
                  busy_until[a] = 0
       /\ \A w \in Workers :
            (pc[w] = "fa_route" /\ status'[Current(w)] = "Errored"
                 /\ status[Current(w)] # "Errored") =>
                Current(w) \in pass[w].leased]_vars

\* C29: an action a pass has leased and holds for dispatch leaves the pass by
\* being handed to its executor, and by nothing else: no pass drops a leased
\* action and leaves it Busy.
LeasedAreDispatched ==
    [][\A w \in Workers :
         \A a \in IdsOf(result[w]) \ IdsOf(result'[w]) :
            \E e \in running' \ running : e.id = a /\ e.w = w]_vars

\* C30: every executor call that run_til_empty has started and that is still
\* in flight holds a lease that has not expired, unless its timeout is due: no
\* execution of the drain outlives the lease taken for it.
DrainWithinLease ==
    \A e \in running : e.w = "w2" => (e.lease > 0 \/ e.deadline <= 0)

\* C31: stop() is not ended by a loop that has already returned: the send of
\* the stop signal to a loop whose Receiver is gone does not panic, and stop()
\* goes on to the loops it has not yet signalled and joined.
StopToleratesEndedLoop ==
    [][(stopPc = "send" /\ draining # <<>> /\ Finished(Head(draining))
            /\ stopPc' # stopPc) =>
          (stopPc' # "panicked" /\ draining' = Tail(draining))]_vars

PublishErrorEndsLoop ==
    /\ [](\A p \in Range(pubPass.called) \cap unpub :
             /\ pubPc = "failed"
             /\ p = pubPass.called[Len(pubPass.called)])
    /\ [][/\ (pubPc = "publish" /\ pubPc' = "failed") =>
                /\ unpub' = unpub
                /\ pubLeft' = <<>>
                /\ pubPass'.called = Append(pubPass.called, Head(pubLeft))
          /\ pubPc = "failed" =>
                (pubPc' = "failed" /\ unpub' = unpub /\ pubPass' = pubPass)]_vars

PublishFailedMidBatch ==
    /\ pubPc = "failed"
    /\ Len(pubPass.called) >= 2
    /\ Cardinality(pubPass.batch \ Range(pubPass.called)) >= 2

UnpublishStep ==
    /\ bizCall'.op = "unpublish" /\ bizCall'.ret = "Ok"
    /\ bizCall'.self \in held /\ held' = held \ {bizCall'.self}

\* The Pending ProcessTransferDrip actions owned by event e.
PendingDripsOf(e) ==
    {a \in Ids : /\ resource[a].main_table = "Events"
                 /\ resource[a].main_table_id = e
                 /\ atype[a] = "ProcessTransferDrip"
                 /\ status[a] = "Pending"}

\* C35: a call of Event::unpublish on a Published event that succeeds leaves
\* the event Draft and cancels every Pending ProcessTransferDrip action the
\* event owns, so that none is Pending; it creates no action and leaves every
\* other action, of another event or table, type or status, as it was.
UnpublishCancelsPendingDrips ==
    [][UnpublishStep =>
         LET e == bizCall'.self.id
         IN /\ bizCall'.self.status = "Published"
            /\ db_events'[e].status = "Draft"
            /\ \A a \in PendingDripsOf(e) : status'[a] = "Cancelled"
            /\ \A a \in Ids \ PendingDripsOf(e) : status'[a] = status[a]
            /\ DOMAIN status' = DOMAIN status
            /\ ~\E a \in DOMAIN status' :
                  /\ resource'[a].main_table = "Events"
                  /\ resource'[a].main_table_id = e
                  /\ atype'[a] = "ProcessTransferDrip"
                  /\ status'[a] = "Pending"
            /\ UNCHANGED <<scheduled_at, busy_until, atype, last_error,
                           resource>>]_vars

\* An unpublish has cancelled a drip action of its event while a drip action
\* of another event is still Pending.
UnpublishedBesideOtherDrips ==
    /\ bizCall.op = "unpublish" /\ bizCall.ret = "Ok"
    /\ \E a, b \in Ids :
          /\ resource[a].main_table = "Events"
          /\ resource[a].main_table_id = bizCall.self.id
          /\ atype[a] = "ProcessTransferDrip"
          /\ status[a] = "Cancelled"
          /\ resource[b].main_table = "Events"
          /\ resource[b].main_table_id # bizCall.self.id
          /\ atype[b] = "ProcessTransferDrip"
          /\ status[b] = "Pending"

\* This step is a call of Event::publish.
PublishStep ==
    /\ bizCall'.op = "publish"
    /\ bizCall'.self \in held /\ held' = held \ {bizCall'.self}

\* C36: a call of Event::publish on an event that is not Published and has a
\* venue and a promo image makes the event Published and creates exactly one
\* action, Pending, of type RegenerateDripActions, owned by the event; a call on
\* an event that is Published already, or that lacks venue or promo image,
\* creates no action and leaves the events as they were; no call changes an
\* action that exists.
PublishCreatesOneRegenerate ==
    [][PublishStep =>
         LET self == bizCall'.self
             n == Len(status)
         IN /\ \A a \in 1..n :
                 /\ status'[a] = status[a]
                 /\ atype'[a] = atype[a]
                 /\ resource'[a] = resource[a]
                 /\ scheduled_at'[a] = scheduled_at[a]
            /\ IF self.status # "Published" /\ self.venue_id
                     /\ self.promo_image_url
               THEN /\ bizCall'.ret = "Ok"
                    /\ Len(status') = n + 1
                    /\ bizCall'.created = {n + 1}
                    /\ status'[n + 1] = "Pending"
                    /\ atype'[n + 1] = "RegenerateDripActions"
                    /\ resource'[n + 1].main_table = "Events"
                    /\ resource'[n + 1].main_table_id = self.id
                    /\ db_events'[self.id].status = "Published"
               ELSE /\ Len(status') = n
                    /\ db_events' = db_events
                    /\ bizCall'.created = {}
                    /\ bizCall'.ret =
                         IF self.status = "Published" THEN "Ok" ELSE "Err"]_vars

\* An event has been published, unpublished, and published again: it owns two
\* RegenerateDripActions actions.
PublishedTwice ==
    /\ bizCall.op = "publish" /\ bizCall.created # {}
    /\ \E a, b \in Ids :
          /\ a < b
          /\ atype[a] = "RegenerateDripActions"
          /\ atype[b] = "RegenerateDripActions"
          /\ resource[a].main_table_id = resource[b].main_table_id

\* This step is a call of find_by_resource.
FindStep == bizCall'.op = "find_by_resource" /\ bizCall' # bizCall

\* This step is a call of Transfer::create_drip_actions.
CreateDripStep == bizCall'.op = "create_drip_actions" /\ Len(status') > Len(status)

\* C37: find_by_resource returns only actions whose main_table, main_table_id,
\* type and status equal its arguments; and a call of
\* Transfer::create_drip_actions creates two actions that the lookup of the
\* transfer's Pending ProcessTransferDrip actions then returns, one with a
\* Source and one with a Destination payload, beside those it returned before:
\* for a transfer that had none they are all it returns.
FoundByResource ==
    [][/\ FindStep =>
            \A a \in bizCall'.found :
               /\ resource[a].main_table = bizCall'.self.main_table
               /\ resource[a].main_table_id = bizCall'.self.main_table_id
               /\ atype[a] = bizCall'.self.domain_action_type
               /\ status[a] = bizCall'.self.status
       /\ CreateDripStep =>
            LET t == bizCall'.self.id
                before == FindByResource("Transfers", t, "ProcessTransferDrip",
                                         "Pending")
                after == {a \in DOMAIN status' :
                            /\ resource'[a].main_table = "Transfers"
                            /\ resource'[a].main_table_id = t
                            /\ atype'[a] = "ProcessTransferDrip"
                            /\ status'[a] = "Pending"}
            IN /\ after = before \cup bizCall'.created
               /\ before \cap bizCall'.created = {}
               /\ Cardinality({a \in bizCall'.created :
                     resource'[a].payload.source_or_destination = "Source"}) = 1
               /\ Cardinality({a \in bizCall'.created :
                     resource'[a].payload.source_or_destination
                        = "Destination"}) = 1
               /\ Cardinality(bizCall'.created) = 2]_vars

\* The lookup for a transfer has returned its two drip actions and not the
\* drip action of an event.
FoundTransferDrips ==
    /\ bizCall.op = "find_by_resource"
    /\ bizCall.self.main_table = "Transfers"
    /\ Cardinality(bizCall.found) = 2
    /\ \E a \in Ids \ bizCall.found :
          atype[a] = "ProcessTransferDrip" /\ status[a] = "Pending"

\* This step is a call of NewBroadcast::commit.
CommitStep ==
    /\ bizCall'.op = "commit"
    /\ bizCall' # bizCall \/ broadcasts' # broadcasts

\* C38: NewBroadcast::commit of a LastCall broadcast, or of a Custom one whose
\* message is present and not empty, inserts the broadcast and exactly one
\* Pending BroadcastPushNotification action that refers to it, scheduled at
\* send_at when there is one and now otherwise; a commit of a Custom broadcast
\* without a message or with an empty one returns an error and inserts neither.
CommitCreatesOneNotification ==
    [][CommitStep =>
         LET self == bizCall'.self
             valid == \/ self.notification_type = "LastCall"
                      \/ self.message # <<>> /\ self.message[1] # ""
             new == DOMAIN status' \ DOMAIN status
         IN IF valid
            THEN /\ bizCall'.ret = "Ok"
                 /\ broadcasts' = Append(broadcasts, self)
                 /\ Cardinality(new) = 1
                 /\ bizCall'.created = new
                 /\ \A a \in new :
                       /\ status'[a] = "Pending"
                       /\ atype'[a] = "BroadcastPushNotification"
                       /\ resource'[a].main_table = "Broadcasts"
                       /\ resource'[a].main_table_id = Len(broadcasts')
                       /\ resource'[a].payload.event_id = self.event_id
                       /\ scheduled_at'[a] = IF self.send_at = <<>> THEN now
                                             ELSE self.send_at[1]
                 /\ \A a \in DOMAIN status :
                       /\ status'[a] = status[a]
                       /\ scheduled_at'[a] = scheduled_at[a]
                       /\ resource'[a] = resource[a]
            ELSE /\ bizCall'.ret = "Err"
                 /\ broadcasts' = broadcasts
                 /\ UNCHANGED actionRows]_vars

\* A Custom broadcast without a usable message has been refused after a
\* broadcast with a send_at ahead of the clock was committed.
RefusedAfterScheduledBroadcast ==
    /\ bizCall.op = "commit" /\ bizCall.ret = "Err"
    /\ bizCall.self.notification_type = "Custom"
    /\ Len(broadcasts) = 1 /\ Len(status) = 1
    /\ broadcasts[1].send_at # <<>>
    /\ scheduled_at[1] = broadcasts[1].send_at[1]
    /\ scheduled_at[1] > now

=============================================================================
